---- MODULE Spec2Model ----
(***************************************************************************)
(* filesystem-agent: the agent module (lib/agent.ts), the POST route       *)
(* handler (app/api/route.ts) and the chat form (app/form.tsx).            *)
(*                                                                         *)
(* JavaScript strings are sequences of one-character strings, so that      *)
(* join, trim and the falsiness of '' are computed and not assumed.        *)
(* An optional value is a record with a flag (hasParts, hasOutput ...).    *)
(***************************************************************************)
EXTENDS Integers, Sequences, FiniteSets, TLC

VARIABLES
    agent,          \* lib/agent.ts: the exported agent, once the module is loaded
    sandboxWrites,  \* files written to a sandbox (sequence of [path, content])
    pc,             \* position of the one POST request in flight
    messages,       \* the request body's messages array
    prompt,         \* route.ts: const prompt
    streamCalls,    \* arguments of every agent.stream call
    outcome,        \* how the awaited agent.stream call settled
    merged,         \* writer.merge returned normally
    response,       \* the events of the response stream, in order
    input,          \* form.tsx: useState('') value
    chatMessages,   \* form.tsx: useChat().messages
    status,         \* form.tsx: useChat().status
    rendered,       \* what the last render of Form closed over and put in the DOM
    sendCalls,      \* arguments of every sendMessage call
    submits         \* number of submit events handled

serverVars == <<agent, sandboxWrites, pc, messages, prompt, streamCalls, outcome, merged, response>>
formVars == <<input, chatMessages, status, rendered, sendCalls, submits>>
vars == <<agent, sandboxWrites, pc, messages, prompt, streamCalls, outcome, merged, response,
          input, chatMessages, status, rendered, sendCalls, submits>>

----------------------------------------------------------------------------
(* Bounds of the model *)

MaxMsgs == 2
MaxParts == 2
MaxChunks == 2
MaxInput == 2
MaxSubmits == 2
MaxToolParts == 1

NL == "\n"

Texts == {<<>>, <<"a">>, <<"b">>}
Roles == {"user", "assistant"}
PartTypes == {"text", "reasoning"}

Parts == [type : PartTypes, text : Texts]

SeqsUpTo(S, n) == UNION {[1..k -> S] : k \in 0..n}

\* A UIMessage: parts may be absent (lastMessage?.parts?.)
LastMessages ==
    [role : Roles, hasParts : {TRUE}, parts : SeqsUpTo(Parts, MaxParts)]
      \cup [role : Roles, hasParts : {FALSE}, parts : {<<>>}]

\* Earlier messages of the conversation: one text part each
HistoryMessages ==
    {[role |-> r, hasParts |-> TRUE, parts |-> <<[type |-> "text", text |-> t]>>] :
        r \in Roles, t \in Texts}

MessageArrays ==
    {<<>>} \cup
    {h \o <<m>> : h \in SeqsUpTo(HistoryMessages, MaxMsgs - 1), m \in LastMessages}

----------------------------------------------------------------------------
(* lib/agent.ts *)

MODEL == "anthropic/claude-opus-4.6"

NoAgent == [loaded |-> FALSE, model |-> "", tools |-> {}, instructions |-> ""]

\* new ToolLoopAgent({ model, tools: {}, instructions: "" })
ToolLoopAgent == [loaded |-> TRUE, model |-> MODEL, tools |-> {}, instructions |-> ""]

\* the local lib/calls directory: three call transcripts
CallFiles == {"1.md", "2.md", "3.md"}

\* Evaluating the module lib/agent.ts (imported by route.ts line 1)
LoadAgentModule ==
    /\ ~agent.loaded
    /\ agent' = ToolLoopAgent
    /\ UNCHANGED <<sandboxWrites, pc, messages, prompt, streamCalls, outcome, merged, response>>
    /\ UNCHANGED formVars

----------------------------------------------------------------------------
(* app/api/route.ts: the prompt *)

FilterNone(parts) == parts

\* .filter(part => part.type === 'text')
FilterText(parts) == SelectSeq(parts, LAMBDA p : p.type = "text")

\* .map(part => part.text)
MapText(parts) == [i \in 1..Len(parts) |-> parts[i].text]

JoinSep == <<NL>>

\* Array.prototype.join('\n')
RECURSIVE Join(_)
Join(ts) ==
    IF ts = <<>> THEN <<>>
    ELSE IF Len(ts) = 1 THEN ts[1]
    ELSE ts[1] \o JoinSep \o Join(Tail(ts))

\* messages[messages.length - 1]: undefined when the array is empty
LastMessage(msgs) ==
    IF Len(msgs) = 0 THEN [def |-> FALSE, val |-> [role |-> "user", hasParts |-> FALSE, parts |-> <<>>]]
    ELSE [def |-> TRUE, val |-> msgs[Len(msgs)]]

\* lastMessage?.parts?.filter(..).map(..).join('\n')
JoinedText(last) ==
    IF ~last.def \/ ~last.val.hasParts THEN [def |-> FALSE, val |-> <<>>]
    ELSE [def |-> TRUE, val |-> Join(MapText(FilterText(last.val.parts)))]

\* x || '': undefined and '' are falsy
OrEmpty(x) == IF ~x.def \/ x.val = <<>> THEN <<>> ELSE x.val

PromptOf(msgs) == OrEmpty(JoinedText(LastMessage(msgs)))

----------------------------------------------------------------------------
(* app/api/route.ts: the handler *)

HandlerEvent(t, d) == [by |-> "handler", type |-> t, id |-> "error", delta |-> d]

ErrorText == "An error occurred. Please try again."

\* the three writer.write calls of the catch block
ErrorEvents ==
    << HandlerEvent("text-start", ""),
       HandlerEvent("text-delta", ErrorText),
       HandlerEvent("text-end", "") >>

\* a chunk of the agent's UI message stream, forwarded by writer.merge
AgentChunk == [by |-> "agent", type |-> "text-delta", id |-> "0", delta |-> "chunk"]

\* the error chunk the stream itself emits when a merged stream fails
StreamErrorChunk == [by |-> "stream", type |-> "error", id |-> "", delta |-> ""]

\* POST: parse the body, build the prompt, return the streaming response
POST(msgs) ==
    /\ pc = "idle"
    /\ agent.loaded
    /\ messages' = msgs
    /\ prompt' = PromptOf(msgs)
    /\ pc' = "execute"
    /\ UNCHANGED <<agent, sandboxWrites, streamCalls, outcome, merged, response>>
    /\ UNCHANGED formVars

\* a POST request arrives, its body any messages array
ReceiveRequest ==
    /\ pc = "idle"
    /\ \E msgs \in MessageArrays : POST(msgs)

\* execute: agent.stream({ prompt }) is called and awaited
CallAgentStream ==
    /\ pc = "execute"
    /\ streamCalls' = Append(streamCalls, [prompt |-> prompt])
    /\ pc' = "awaiting"
    /\ UNCHANGED <<agent, sandboxWrites, messages, prompt, outcome, merged, response>>
    /\ UNCHANGED formVars

StreamResolves ==
    /\ pc = "awaiting"
    /\ outcome' = "resolved"
    /\ pc' = "resolved"
    /\ UNCHANGED <<agent, sandboxWrites, messages, prompt, streamCalls, merged, response>>
    /\ UNCHANGED formVars

\* agent.stream throws or its promise rejects: control goes to the catch block
StreamRejects ==
    /\ pc = "awaiting"
    /\ outcome' = "rejected"
    /\ pc' = "catch"
    /\ UNCHANGED <<agent, sandboxWrites, messages, prompt, streamCalls, merged, response>>
    /\ UNCHANGED formVars

\* stream.toUIMessageStream() throws inside the try block, before the merge
ToUIMessageStreamThrows ==
    /\ pc = "resolved"
    /\ pc' = "catch"
    /\ UNCHANGED <<agent, sandboxWrites, messages, prompt, streamCalls, outcome, merged, response>>
    /\ UNCHANGED formVars

\* writer.merge(stream.toUIMessageStream()) returns; execute returns
WriterMerge ==
    /\ pc = "resolved"
    /\ merged' = TRUE
    /\ pc' = "merged"
    /\ UNCHANGED <<agent, sandboxWrites, messages, prompt, streamCalls, outcome, response>>
    /\ UNCHANGED formVars

CatchBlockRetry ==
    /\ pc = "catch"
    /\ streamCalls' = Append(streamCalls, [prompt |-> prompt])
    /\ pc' = "awaiting"
    /\ UNCHANGED <<agent, sandboxWrites, messages, prompt, outcome, merged, response>>
    /\ UNCHANGED formVars

CatchBlockNoEnd ==
    /\ pc = "catch"
    /\ response' = response \o SubSeq(ErrorEvents, 1, 2)
    /\ pc' = "closed"
    /\ UNCHANGED <<agent, sandboxWrites, messages, prompt, streamCalls, outcome, merged>>
    /\ UNCHANGED formVars

\* catch (error): console.error, then the three writes; execute returns
CatchBlock ==
    /\ pc = "catch"
    /\ response' = response \o ErrorEvents
    /\ pc' = "closed"
    /\ UNCHANGED <<agent, sandboxWrites, messages, prompt, streamCalls, outcome, merged>>
    /\ UNCHANGED formVars

\* after execute has returned, the merged stream is consumed chunk by chunk
MergedChunk ==
    /\ pc = "merged"
    /\ Len(response) < MaxChunks
    /\ response' = Append(response, AgentChunk)
    /\ UNCHANGED <<agent, sandboxWrites, pc, messages, prompt, streamCalls, outcome, merged>>
    /\ UNCHANGED formVars

MergedStreamFailsCaught ==
    /\ pc = "merged"
    /\ response' = response \o ErrorEvents
    /\ pc' = "failed"
    /\ UNCHANGED <<agent, sandboxWrites, messages, prompt, streamCalls, outcome, merged>>
    /\ UNCHANGED formVars

\* the merged stream fails while it is consumed: execute's try block has been
\* left (merge is not awaited), the stream reports the error itself
MergedStreamFails ==
    /\ pc = "merged"
    /\ response' = Append(response, StreamErrorChunk)
    /\ pc' = "failed"
    /\ UNCHANGED <<agent, sandboxWrites, messages, prompt, streamCalls, outcome, merged>>
    /\ UNCHANGED formVars

MergedStreamEnds ==
    /\ pc = "merged"
    /\ pc' = "closed"
    /\ UNCHANGED <<agent, sandboxWrites, messages, prompt, streamCalls, outcome, merged, response>>
    /\ UNCHANGED formVars

----------------------------------------------------------------------------
(* app/form.tsx: the Form component *)

InputChars == {" ", "a"}
Inputs == SeqsUpTo(InputChars, MaxInput)

IsWhitespace(c) == c = " "

\* String.prototype.trim: leading and trailing whitespace removed
RECURSIVE TrimStart(_)
TrimStart(s) ==
    IF s # <<>> /\ IsWhitespace(Head(s)) THEN TrimStart(Tail(s)) ELSE s

RECURSIVE TrimEnd(_)
TrimEnd(s) ==
    IF s # <<>> /\ IsWhitespace(s[Len(s)]) THEN TrimEnd(SubSeq(s, 1, Len(s) - 1)) ELSE s

Trim(s) == TrimEnd(TrimStart(s))

\* an optional string field of a tool output
Absent == [def |-> FALSE, val |-> ""]
Present(v) == [def |-> TRUE, val |-> v]

ToolStates == {"input-available", "output-available", "output-error"}
ExitCodes == {0, 1}

ToolOutputs ==
    [stdout : {Absent, Present(""), Present("out")},
     stderr : {Absent, Present(""), Present("err")},
     exitCode : ExitCodes]

NoOutput == [stdout |-> Absent, stderr |-> Absent, exitCode |-> 0]

\* the tool parts a streamed assistant message can hold (output?: {...})
ToolParts ==
    [type : {"tool-bashTool"}, state : ToolStates, hasOutput : {TRUE}, output : ToolOutputs]
      \cup [type : {"tool-bashTool"}, state : ToolStates, hasOutput : {FALSE}, output : {NoOutput}]

\* JavaScript truthiness of an optional string: undefined and '' are falsy
Truthy(o) == o.def /\ o.val # ""

OutputTextStderrFirst(output) ==
    IF Truthy(output.stderr) THEN output.stderr.val
    ELSE IF Truthy(output.stdout) THEN output.stdout.val
    ELSE "(no output)"

\* toolPart.output.stdout || toolPart.output.stderr || '(no output)'
OutputText(output) ==
    IF Truthy(output.stdout) THEN output.stdout.val
    ELSE IF Truthy(output.stderr) THEN output.stderr.val
    ELSE "(no output)"

\* toolPart.state === 'output-available' && toolPart.output !== undefined
ShowsOutput(part) == part.state = "output-available" /\ part.hasOutput

\* what message.parts.map renders for one part
RenderPart(part) ==
    IF part.type = "text" THEN [kind |-> "text", text |-> part.text]
    ELSE [kind |-> "tool",
          shown |-> ShowsOutput(part),
          out |-> IF ShowsOutput(part) THEN OutputText(part.output) ELSE ""]

\* messages.map(message => message.parts.map(...))
View(msgs) ==
    [i \in DOMAIN msgs |-> [j \in DOMAIN msgs[i].parts |-> RenderPart(msgs[i].parts[j])]]

\* one render of Form: the closures and the DOM it produces
RenderOf(inp, msgs, st) ==
    [input |-> inp, messages |-> msgs, status |-> st, view |-> View(msgs),
     form |-> (Len(msgs) = 0)]

UserMessage(text) == [role |-> "user", parts |-> <<[type |-> "text", text |-> text]>>]

\* React flushes the re-render before the task that changed the state ends:
\* an event of a later task (a network chunk) finds the component re-rendered,
\* DOM events dispatched within one task do not
Flushed == rendered = RenderOf(input, chatMessages, status)

\* React re-renders Form after a state change
Render ==
    /\ ~Flushed
    /\ rendered' = RenderOf(input, chatMessages, status)
    /\ UNCHANGED <<input, chatMessages, status, sendCalls, submits>>
    /\ UNCHANGED serverVars

\* onChange={(e) => setInput(e.target.value)}, on the form of the last render
OnChange(v) ==
    /\ rendered.form
    /\ input' = v
    /\ UNCHANGED <<chatMessages, status, rendered, sendCalls, submits>>
    /\ UNCHANGED serverVars

HandleSubmitTrimmed ==
    /\ rendered.form
    /\ submits < MaxSubmits
    /\ submits' = submits + 1
    /\ IF Trim(rendered.input) = <<>>
       THEN UNCHANGED <<input, chatMessages, status, sendCalls>>
       ELSE /\ input' = <<>>
            /\ sendCalls' = Append(sendCalls, Trim(rendered.input))
            /\ chatMessages' = Append(chatMessages, UserMessage(Trim(rendered.input)))
            /\ status' = "submitted"
    /\ UNCHANGED rendered
    /\ UNCHANGED serverVars

\* handleSubmit, the onSubmit of the form of the last render; `input` is the
\* value that render closed over. sendMessage appends the user message and
\* starts the request.
HandleSubmit ==
    /\ rendered.form
    /\ submits < MaxSubmits
    /\ submits' = submits + 1
    /\ IF Trim(rendered.input) = <<>>
       THEN UNCHANGED <<input, chatMessages, status, sendCalls>>
       ELSE /\ input' = <<>>
            /\ sendCalls' = Append(sendCalls, rendered.input)
            /\ chatMessages' = Append(chatMessages, UserMessage(rendered.input))
            /\ status' = "submitted"
    /\ UNCHANGED rendered
    /\ UNCHANGED serverVars

\* useChat: the response starts streaming, an assistant message appears
ResponseStarts ==
    /\ Flushed
    /\ status = "submitted"
    /\ status' = "streaming"
    /\ chatMessages' = Append(chatMessages, [role |-> "assistant", parts |-> <<>>])
    /\ UNCHANGED <<input, rendered, sendCalls, submits>>
    /\ UNCHANGED serverVars

\* useChat: the response ends, or the request fails
ResponseEnds ==
    /\ Flushed
    /\ status = "streaming"
    /\ status' = "ready"
    /\ UNCHANGED <<input, chatMessages, rendered, sendCalls, submits>>
    /\ UNCHANGED serverVars

ResponseFails ==
    /\ Flushed
    /\ status \in {"submitted", "streaming"}
    /\ status' = "error"
    /\ UNCHANGED <<input, chatMessages, rendered, sendCalls, submits>>
    /\ UNCHANGED serverVars

----------------------------------------------------------------------------
(* Initial states and specifications *)

InitServer ==
    /\ agent = NoAgent
    /\ sandboxWrites = <<>>
    /\ pc = "idle"
    /\ messages = <<>>
    /\ prompt = <<>>
    /\ streamCalls = <<>>
    /\ outcome = "none"
    /\ merged = FALSE
    /\ response = <<>>

InitForm ==
    /\ input = <<>>
    /\ chatMessages = <<>>
    /\ status = "ready"
    /\ rendered = RenderOf(<<>>, <<>>, "ready")
    /\ sendCalls = <<>>
    /\ submits = 0

Init == InitServer /\ InitForm

Next ==
    \/ LoadAgentModule
    \/ ReceiveRequest
    \/ CallAgentStream
    \/ StreamResolves
    \/ StreamRejects
    \/ ToUIMessageStreamThrows
    \/ WriterMerge
    \/ CatchBlock
    \/ MergedChunk
    \/ MergedStreamFails
    \/ MergedStreamEnds

Spec == Init /\ [][Next]_vars

NextForm ==
    \/ Render
    \/ \E v \in Inputs : OnChange(v)
    \/ HandleSubmit
    \/ ResponseStarts
    \/ ResponseEnds
    \/ ResponseFails

SpecForm == Init /\ [][NextForm]_vars

\* The parts of a streamed assistant message, as useChat hands them to Form
AssistantParts == ToolParts \cup {[type |-> "text", text |-> <<"a">>]}

\* Form while the answer to the message 'a' streams in: the assistant message
\* holds any parts, the last render is the one that followed the submit
InitView ==
    /\ InitServer
    /\ input = <<>>
    /\ sendCalls = << <<"a">> >>
    /\ submits = 1
    /\ status = "streaming"
    /\ \E ps \in SeqsUpTo(AssistantParts, MaxToolParts) :
          chatMessages = <<UserMessage(<<"a">>), [role |-> "assistant", parts |-> ps]>>
    /\ rendered = RenderOf(<<>>, <<UserMessage(<<"a">>)>>, "submitted")

NextView ==
    \/ Render
    \/ ResponseEnds
    \/ ResponseFails

SpecView == InitView /\ [][NextView]_vars

----------------------------------------------------------------------------
(* Properties of the server side *)

\* the prompt a request leads to, stated over positions of the last message
RECURSIVE FlatUpTo(_, _)
FlatUpTo(ts, n) ==
    IF n = 0 THEN <<>>
    ELSE IF n = 1 THEN ts[1]
    ELSE FlatUpTo(ts, n - 1) \o <<"\n">> \o ts[n]

TextPartTexts(m) ==
    LET idx == {i \in DOMAIN m.parts : m.parts[i].type = "text"}
        nth[k \in 1..Cardinality(idx)] ==
            CHOOSE i \in idx : Cardinality({j \in idx : j < i}) = k - 1
    IN [k \in 1..Cardinality(idx) |-> m.parts[nth[k]].text]

ExpectedPrompt(msgs) ==
    IF msgs = <<>> THEN <<>>
    ELSE LET m == msgs[Len(msgs)]
             ts == TextPartTexts(m)
         IN IF ~m.hasParts THEN <<>> ELSE FlatUpTo(ts, Len(ts))

Called == pc \notin {"idle", "execute"}

\* C1: every POST request invokes agent.stream exactly once, with the prompt
\* derived from that request, whether the call succeeds or fails: no retry,
\* no second run.
C1_StreamCalledOnce ==
    /\ Len(streamCalls) <= 1
    /\ ~Called => streamCalls = <<>>
    /\ Called => streamCalls = <<[prompt |-> ExpectedPrompt(messages)]>>

C1_Witness ==
    /\ pc = "closed"
    /\ outcome = "rejected"
    /\ Len(streamCalls) = 1
    /\ Len(messages) = 2

\* C2: when agent.stream throws or rejects, the response holds exactly the
\* three events text-start, text-delta 'An error occurred. Please try again.',
\* text-end, all with id 'error', in this order, and no agent stream is merged.
C2_ErrorPath ==
    outcome = "rejected" =>
        /\ ~merged
        /\ pc # "closed" => response = <<>>
        /\ pc = "closed" =>
            /\ Len(response) = 3
            /\ \A i \in 1..3 : response[i].id = "error" /\ response[i].by = "handler"
            /\ response[1].type = "text-start"
            /\ response[2].type = "text-delta"
            /\ response[2].delta = "An error occurred. Please try again."
            /\ response[3].type = "text-end"

C2_Witness == outcome = "rejected" /\ pc = "closed" /\ Len(response) = 3

LastUserIndex(msgs) ==
    CHOOSE i \in DOMAIN msgs :
        /\ msgs[i].role = "user"
        /\ \A j \in DOMAIN msgs : msgs[j].role = "user" => j <= i

\* C3: the prompt passed to agent.stream is the text of the last message
\* with role 'user' of the request.
C3_PromptIsLastUserMessage ==
    (Called /\ \E i \in DOMAIN messages : messages[i].role = "user") =>
        streamCalls[1].prompt = ExpectedPrompt(<<messages[LastUserIndex(messages)]>>)

\* C4: the agent's tool set is a single bash tool (which forwards every
\* command to the sandbox's runCommand and relays its result).
C4_SingleBashTool == agent.loaded => agent.tools = {"bashTool"}

\* C5: when the agent exists, every file of lib/calls has been written to
\* the sandbox exactly once, at calls/<file name>.
C5_FilesLoadedBeforeAgent ==
    agent.loaded =>
        \A f \in CallFiles :
            Cardinality({i \in DOMAIN sandboxWrites : sandboxWrites[i].path = <<"calls", f>>}) = 1

C7_WitnessEmpty ==
    /\ pc = "closed"
    /\ Len(messages) = 1
    /\ messages[1].parts = <<[type |-> "reasoning", text |-> <<"a">>]>>
    /\ streamCalls = <<[prompt |-> <<>>]>>

HandlerWrote == \E i \in DOMAIN response : response[i].by = "handler"

\* C8: handler-written 'error' events and the merged agent stream never both
\* appear in a response: once the merge has returned the handler writes
\* nothing, and a failure of the merged stream does not produce the
\* 'An error occurred. Please try again.' text.
C8_ErrorOrMergeNotBoth ==
    /\ ~(merged /\ HandlerWrote)
    /\ HandlerWrote => \A i \in DOMAIN response : response[i].by = "handler"
    /\ pc = "failed" => \A i \in DOMAIN response : response[i].delta # ErrorText

C8_Witness == pc = "failed" /\ merged /\ Len(response) = MaxChunks + 1

----------------------------------------------------------------------------
(* Properties of the form *)

HasNonWhitespace(s) == \E i \in DOMAIN s : s[i] # " "

\* C6: handleSubmit calls sendMessage if and only if the input of the form
\* holds a non-whitespace character: then exactly once, with the text as
\* typed (not trimmed), and the input is reset to ''; otherwise nothing is
\* called and the input and the message list are unchanged. Nothing else
\* calls sendMessage.
C6_HandleSubmit ==
    [][ /\ submits' # submits =>
            IF HasNonWhitespace(rendered.input)
            THEN /\ sendCalls' = sendCalls \o <<rendered.input>>
                 /\ input' = <<>>
            ELSE /\ sendCalls' = sendCalls
                 /\ input' = input
                 /\ chatMessages' = chatMessages
        /\ submits' = submits => sendCalls' = sendCalls ]_vars

C6_Witness ==
    /\ submits = 1
    /\ sendCalls = << <<" ", "a">> >>
    /\ input = <<>>

C6_WitnessBlank ==
    /\ submits = 1
    /\ sendCalls = <<>>
    /\ input = <<" ">>
    /\ rendered.input = <<" ">>

\* C9: after any sequence of submit events on one mounted Form, sendMessage
\* has been called at most once, also when two submit events arrive before
\* the component re-renders.
C9_AtMostOneSend == Len(sendCalls) <= 1

RenderedToolParts ==
    {<<i, j>> \in (1..2) \X (1..MaxToolParts) :
        /\ i \in DOMAIN rendered.messages
        /\ j \in DOMAIN rendered.messages[i].parts
        /\ rendered.messages[i].parts[j].type = "tool-bashTool"}

\* C10: a tool part shows an output block if and only if its state is
\* 'output-available' and its output is defined; the text is stdout when
\* stdout is non-empty, otherwise stderr when stderr is non-empty, otherwise
\* '(no output)'; the exit code is never shown.
C10_ToolOutputBlock ==
    \A ij \in RenderedToolParts :
        LET p == rendered.messages[ij[1]].parts[ij[2]]
            b == rendered.view[ij[1]][ij[2]]
            so == p.output.stdout
            se == p.output.stderr
        IN /\ b.shown <=> (p.state = "output-available" /\ p.hasOutput)
           /\ b.shown =>
                /\ (so.def /\ so.val # "") => b.out = so.val
                /\ (~(so.def /\ so.val # "") /\ (se.def /\ se.val # "")) => b.out = se.val
                /\ (~(so.def /\ so.val # "") /\ ~(se.def /\ se.val # "")) => b.out = "(no output)"
           /\ ~b.shown => b.out = ""

C10_Witness ==
    \E ij \in RenderedToolParts :
        LET p == rendered.messages[ij[1]].parts[ij[2]]
            b == rendered.view[ij[1]][ij[2]]
        IN /\ p.state = "output-available"
           /\ p.hasOutput
           /\ p.output.stdout = Present("out")
           /\ p.output.stderr = Present("err")
           /\ p.output.exitCode = 1
           /\ b.shown
           /\ b.out = "out"

====
